---- MODULE Spec2Model ----
(***************************************************************************)
(* Model of the investment projection engine (calculateInvestmentProjection *)
(* and its helpers).                                                        *)
(*                                                                          *)
(* Numbers.  A JavaScript number is modelled as an exact rational           *)
(* [k |-> "rat", n, d] (d > 0, lowest terms) or as one of the IEEE special  *)
(* values NaN and +/-Infinity, with the IEEE rules for the operations that  *)
(* produce and propagate them (0/0 = NaN, x/0 = +/-Infinity, NaN compares   *)
(* false with everything).  Rounding is not modelled.                       *)
(*                                                                          *)
(* Math.log, Math.sqrt, Math.exp and the inverse normal CDF have no         *)
(* rational values in general; their results are kept as terms              *)
(* ("ln", "sqrtln", "logmu", "z", "zs", "lin", "exp", "sum"), evaluated     *)
(* exactly where                                                            *)
(* the code's own operands make them rational: ln(1) = 0, sqrt(0) = 0,      *)
(* z * 0 = 0, exp(ln x) = x.                                                *)
(***************************************************************************)
EXTENDS Integers, Sequences, FiniteSets, TLC

\* ------------------------------------------------------------------ bounds
MaxYears == 3
MaxAmount == 2
MaxPositions == 2
MaxCalls == 3

\* --------------------------------------------------------------- rationals
Abs(i) == IF i < 0 THEN -i ELSE i

RECURSIVE Gcd(_, _)
Gcd(a, b) == IF b = 0 THEN a ELSE Gcd(b, a % b)

Rat(n, d) ==
    LET s == IF d < 0 THEN -1 ELSE 1
        g == Gcd(Abs(n), Abs(d))
    IN  [k |-> "rat", n |-> (s * n) \div g, d |-> (s * d) \div g]

Zero == Rat(0, 1)
One == Rat(1, 1)
Two == Rat(2, 1)
Half == Rat(1, 2)
NaN == [k |-> "nan"]
PosInf == [k |-> "inf", s |-> 1]
NegInf == [k |-> "inf", s |-> -1]

IsRat(x) == x.k = "rat"
IsNaN(x) == x.k = "nan"
IsInf(x) == x.k = "inf"

Sign(x) ==
    IF IsRat(x) THEN (IF x.n > 0 THEN 1 ELSE IF x.n < 0 THEN -1 ELSE 0)
    ELSE IF IsInf(x) THEN x.s
    ELSE 1

\* IEEE addition
Add(x, y) ==
    IF IsNaN(x) \/ IsNaN(y) THEN NaN
    ELSE IF IsInf(x) /\ IsInf(y) THEN (IF x.s = y.s THEN x ELSE NaN)
    ELSE IF IsInf(x) THEN x
    ELSE IF IsInf(y) THEN y
    ELSE Rat(x.n * y.d + y.n * x.d, x.d * y.d)

Neg(x) ==
    IF IsNaN(x) THEN NaN
    ELSE IF IsInf(x) THEN [k |-> "inf", s |-> -x.s]
    ELSE Rat(-x.n, x.d)

Sub(x, y) == Add(x, Neg(y))

\* IEEE multiplication
Mul(x, y) ==
    IF IsNaN(x) \/ IsNaN(y) THEN NaN
    ELSE IF IsInf(x) \/ IsInf(y)
         THEN (IF Sign(x) * Sign(y) = 0 THEN NaN
               ELSE [k |-> "inf", s |-> Sign(x) * Sign(y)])
    ELSE Rat(x.n * y.n, x.d * y.d)

\* IEEE division: 0/0 and Inf/Inf are NaN, x/0 is +/-Infinity
Div(x, y) ==
    IF IsNaN(x) \/ IsNaN(y) THEN NaN
    ELSE IF IsInf(x) /\ IsInf(y) THEN NaN
    ELSE IF IsInf(x) THEN [k |-> "inf", s |-> x.s * (IF Sign(y) < 0 THEN -1 ELSE 1)]
    ELSE IF IsInf(y) THEN Zero
    ELSE IF y.n = 0 THEN (IF x.n = 0 THEN NaN ELSE [k |-> "inf", s |-> Sign(x)])
    ELSE Rat(x.n * y.d, x.d * y.n)

\* Math.pow(x, N) and x ** N for an integer exponent N >= 0
RECURSIVE Pow(_, _)
Pow(x, N) == IF N = 0 THEN One ELSE Mul(x, Pow(x, N - 1))

\* x < y on numbers; every comparison with NaN is false
Lt(x, y) ==
    IF IsNaN(x) \/ IsNaN(y) THEN FALSE
    ELSE IF IsInf(x) THEN x.s < 0 /\ ~(IsInf(y) /\ y.s < 0)
    ELSE IF IsInf(y) THEN y.s > 0
    ELSE x.n * y.d < y.n * x.d

\* x === y on numbers (NaN is not equal to itself)
StrictEq(x, y) == ~IsNaN(x) /\ ~IsNaN(y) /\ x = y

Leq(x, y) == Lt(x, y) \/ StrictEq(x, y)

MathMax(x, y) == IF IsNaN(x) \/ IsNaN(y) THEN NaN ELSE IF Lt(x, y) THEN y ELSE x
MathMin(x, y) == IF IsNaN(x) \/ IsNaN(y) THEN NaN ELSE IF Lt(y, x) THEN y ELSE x

\* ------------------------------------------- Math.log / sqrt / exp as terms
\* Math.log(x): ln(1) is exactly 0; any other positive rational gives a term
MathLog(x) ==
    IF IsNaN(x) THEN NaN
    ELSE IF IsInf(x) THEN (IF x.s > 0 THEN PosInf ELSE NaN)
    ELSE IF x.n < 0 THEN NaN
    ELSE IF x.n = 0 THEN NegInf
    ELSE IF x = One THEN Zero
    ELSE [k |-> "ln", of |-> x]

\* Math.sqrt(v) for v a result of MathLog
MathSqrt(v) ==
    IF IsNaN(v) THEN NaN
    ELSE IF IsInf(v) THEN (IF v.s > 0 THEN PosInf ELSE NaN)
    ELSE IF IsRat(v) THEN (IF v.n = 0 THEN Zero ELSE IF v.n < 0 THEN NaN
                           ELSE [k |-> "sqrt", of |-> v])
    ELSE IF Lt(v.of, One) THEN NaN
    ELSE [k |-> "sqrtln", of |-> v.of]

\* logE - 0.5 * sigma_w2
LogMuOf(logE, sigma_w2) ==
    IF IsNaN(logE) \/ IsNaN(sigma_w2) THEN NaN
    ELSE IF sigma_w2 = Zero THEN logE
    ELSE IF (IsRat(logE) \/ IsInf(logE)) /\ (IsRat(sigma_w2) \/ IsInf(sigma_w2))
         THEN Sub(logE, Mul(Half, sigma_w2))
    ELSE [k |-> "logmu", e |-> logE, s2 |-> sigma_w2]

\* jStat.normal.inv(p, 0, 1) for 0 < p < 1: a finite real, strictly
\* increasing in p; kept as a term that carries p
zOf(p) == [k |-> "z", p |-> p]

\* z * logSigma for a finite z
MulZ(z, logSigma) ==
    IF IsNaN(logSigma) THEN NaN
    ELSE IF logSigma = Zero THEN Zero
    ELSE [k |-> "zs", z |-> z, sigma |-> logSigma]

\* logMu + zs
AddLog(logMu, zs) ==
    IF IsNaN(logMu) \/ IsNaN(zs) THEN NaN
    ELSE IF zs = Zero THEN logMu
    ELSE [k |-> "lin", mu |-> logMu, zs |-> zs]

\* Math.exp(t): exp(0) = 1, exp(ln x) = x
MathExp(t) ==
    IF IsNaN(t) THEN NaN
    ELSE IF IsInf(t) THEN (IF t.s > 0 THEN PosInf ELSE Zero)
    ELSE IF t = Zero THEN One
    ELSE IF t.k = "ln" THEN t.of
    ELSE [k |-> "exp", of |-> t]

\* annQ + lumpQ, each a result of MathExp
AddQ(a, b) ==
    IF IsNaN(a) \/ IsNaN(b) THEN NaN
    ELSE IF (IsRat(a) \/ IsInf(a)) /\ (IsRat(b) \/ IsInf(b)) THEN Add(a, b)
    ELSE [k |-> "sum", a |-> a, b |-> b]

\* v < 0 for a band value v: a result of MathExp, or a sum of two, is a
\* rational, NaN, +Infinity, or a term standing for a positive real
LtZero(v) == IF IsRat(v) \/ IsInf(v) THEN Lt(v, Zero) ELSE FALSE

\* ----------------------------------------------------------- moment engine
\* (C21 mutant) the fallback of C || 1 is dropped
OrSelf(C) == C

\* C || 1
OrOne(C) == IF IsNaN(C) \/ C = Zero THEN One ELSE C

\* E of the annuity: mu === 0 ? C * N : C * (Math.pow(m, N) - 1) / mu
AnnuityMean(C, N, mu) ==
    IF StrictEq(mu, Zero) THEN Mul(C, Rat(N, 1))
    ELSE Div(Mul(C, Sub(Pow(Add(One, mu), N), One)), mu)

\* S = (Math.pow(A, N) - 1) / (A - 1)
GeomS(A, N) == Div(Sub(Pow(A, N), One), Sub(A, One))

\* the loop  for (p = 1; p < N; p++) T += m^p * ((A^(N-p) - 1) / (A - 1))
RECURSIVE SumT(_, _, _, _)
SumT(m, A, N, p) ==
    IF p >= N THEN Zero
    ELSE Add(Mul(Pow(m, p), GeomS(A, N - p)), SumT(m, A, N, p + 1))

\* how often the body of  for (let p = 1; p < N; p++)  runs, from p on
RECURSIVE CountT(_, _)
CountT(N, p) == IF p >= N THEN 0 ELSE 1 + CountT(N, p + 1)

\* the inner-loop iterations of one call of the annuity helper; the early
\* return for N === 0 || C === 0 runs none
InnerLoopIterations(C, N) == IF N = 0 \/ StrictEq(C, Zero) THEN 0 ELSE CountT(N, 1)

\* let V = second_moment - E ** 2; if (V < 0) V = 0
ClampedVariance(second_moment, E) ==
    LET V == Sub(second_moment, Pow(E, 2))
    IN  IF Lt(V, Zero) THEN Zero ELSE V

\* the three lines that turn (E, V) into { logMu, logSigma }
LognormalParams(E, V) ==
    LET sigma_w2 == MathLog(Add(One, Div(V, Pow(E, 2))))
    IN  [logMu |-> LogMuOf(MathLog(E), sigma_w2), logSigma |-> MathSqrt(sigma_w2)]

\* second_moment of the annuity: C ** 2 * (S + 2 * T)
AnnuitySecondMoment(C, N, m, A) ==
    Mul(Pow(C, 2), Add(GeomS(A, N), Mul(Two, SumT(m, A, N, 1))))

\* A = m ** 2 + sigma ** 2 with m = 1 + mu
GrowthSecondMoment(mu, sigma) == Add(Pow(Add(One, mu), 2), Pow(sigma, 2))

getLognormalDistributionParams(C, N, mu, sigma) ==
    IF N = 0 \/ StrictEq(C, Zero)
    THEN [logMu |-> MathLog(OrOne(C)), logSigma |-> Zero]
    ELSE LET m == Add(One, mu)
             A == GrowthSecondMoment(mu, sigma)
             E == AnnuityMean(C, N, mu)
             second_moment == AnnuitySecondMoment(C, N, m, A)
             V == ClampedVariance(second_moment, E)
         IN  LognormalParams(E, V)

\* E of the lump sum: L * Math.pow(m, N)
LumpSumMean(L, N, m) == Mul(L, Pow(m, N))

\* secondMoment of the lump sum: L ** 2 * Math.pow(A, N)
LumpSumSecondMoment(L, N, A) == Mul(Pow(L, 2), Pow(A, N))

getLumpSumDistributionParams(L, N, mu, sigma) ==
    IF StrictEq(L, Zero) THEN [logMu |-> MathLog(One), logSigma |-> Zero]
    ELSE IF N <= 0 THEN [logMu |-> MathLog(L), logSigma |-> Zero]
    ELSE LET m == Add(One, mu)
             A == GrowthSecondMoment(mu, sigma)
             E == LumpSumMean(L, N, m)
             secondMoment == LumpSumSecondMoment(L, N, A)
             V == ClampedVariance(secondMoment, E)
         IN  LognormalParams(E, V)

\* ------------------------------------------------------ shared-Z quantiles
\* out[p] = Math.exp(annLogMu + z * annLogSigma) + Math.exp(lumpLogMu + z * lumpLogSigma)
QuantileAt(annLogMu, annLogSigma, lumpLogMu, lumpLogSigma, p) ==
    LET z == zOf(p)
        annQ == MathExp(AddLog(annLogMu, MulZ(z, annLogSigma)))
        lumpQ == MathExp(AddLog(lumpLogMu, MulZ(z, lumpLogSigma)))
    IN  AddQ(annQ, lumpQ)

totalQuantilesForYear(annLogMu, annLogSigma, lumpLogMu, lumpLogSigma, percentiles) ==
    [p \in percentiles |-> QuantileAt(annLogMu, annLogSigma, lumpLogMu, lumpLogSigma, p)]

\* ------------------------------------------------------------------ inputs
Amounts == {Rat(a, 1) : a \in 0..MaxAmount}
Returns == {Zero, Half, One}
Volatilities == {Zero, Half}
Percentiles == {Rat(0, 1), Rat(10, 1), Rat(25, 1), Rat(40, 1), Rat(50, 1), Rat(75, 1)}
Ages == {35}

ProjectionInput ==
    [investment : Amounts, age : Ages, projectionYears : 0..MaxYears,
     expectedReturn : Returns, volatility : Volatilities,
     percentile : Percentiles, lumpSumInvestment : Amounts]

\* -------------------------------------------------------- portfolio metrics
\* positions.reduce((acc, pos) => acc + pos.investmentAmount, 0)
RECURSIVE TotalInvestment(_)
TotalInvestment(ps) ==
    IF Len(ps) = 0 THEN Zero
    ELSE Add(TotalInvestment(SubSeq(ps, 1, Len(ps) - 1)), ps[Len(ps)].investmentAmount)

\* (C12 mutant) the percentage is not divided by 100
RECURSIVE WeightedReturnPercent(_)
WeightedReturnPercent(ps) ==
    IF Len(ps) = 0 THEN Zero
    ELSE Add(WeightedReturnPercent(SubSeq(ps, 1, Len(ps) - 1)),
             Mul(ps[Len(ps)].investmentAmount, ps[Len(ps)].expectedReturn))

\* positions.reduce((acc, pos) => acc + pos.investmentAmount * (pos.expectedReturn / 100), 0)
RECURSIVE WeightedReturn(_)
WeightedReturn(ps) ==
    IF Len(ps) = 0 THEN Zero
    ELSE Add(WeightedReturn(SubSeq(ps, 1, Len(ps) - 1)),
             Mul(ps[Len(ps)].investmentAmount,
                 Div(ps[Len(ps)].expectedReturn, Rat(100, 1))))

\* const volatility = 0.15
FixedVolatility == Rat(15, 100)

\* (C13 mutant) the division is not guarded
calculatePortfolioMetricsUnguarded(ps) ==
    LET investment == TotalInvestment(ps)
        weightedReturn == WeightedReturn(ps)
    IN  [investment |-> investment,
         expectedReturn |-> Div(weightedReturn, investment),
         volatility |-> FixedVolatility]

calculatePortfolioMetrics(ps) ==
    LET investment == TotalInvestment(ps)
        weightedReturn == WeightedReturn(ps)
        expectedReturn == IF StrictEq(investment, Zero) THEN Zero
                          ELSE Div(weightedReturn, investment)
    IN  [investment |-> investment,
         expectedReturn |-> expectedReturn,
         volatility |-> FixedVolatility]

\* --------------------------------------------------- the App's initial state
initialPositions ==
    << [symbol |-> "KKP GB", assetClass |-> "Fixed Income",
        expectedReturn |-> Rat(4, 1), investmentAmount |-> Rat(100000, 1)],
       [symbol |-> "KKP GNP-H-SSF", assetClass |-> "Global Equity",
        expectedReturn |-> Rat(8, 1), investmentAmount |-> Rat(100000, 1)] >>

\* the useState defaults of App other than positions
InitialSettings ==
    [age |-> Rat(35, 1), projectionYears |-> Rat(25, 1), percentile |-> Rat(10, 1),
     lumpSumInvestment |-> Rat(1000000, 1)]

\* the blank form of Portfolio: the useState default and the reset after an add
BlankPosition ==
    [symbol |-> "", expectedReturn |-> Rat(8, 1), assetClass |-> "Global Equity",
     investmentAmount |-> Rat(100000, 1)]

\* the argument App builds for calculateInvestmentProjection on a render
ProjectionInputOf(ps, st) ==
    LET metrics == calculatePortfolioMetrics(ps)
    IN  [investment |-> metrics.investment,
         age |-> st.age,
         projectionYears |-> st.projectionYears,
         expectedReturn |-> metrics.expectedReturn,
         volatility |-> metrics.volatility,
         percentile |-> st.percentile,
         lumpSumInvestment |-> st.lumpSumInvestment]

\* ------------------------------------------------------------------- state
VARIABLES
    positions,                   \* App: useState(initialPositions)
    settings,                    \* App: age, projectionYears, percentile, lumpSumInvestment
    newPosition,                 \* Portfolio: the form's useState
    projectionInput,             \* the argument of the projection call of the last render
    history,                     \* the completed calls: <<[input, output], ...>>
    other,                       \* the frame of a second invocation running alongside
    params,                      \* the ProjectionInput of the invocation
    pc,                          \* "loop" while the year loop runs, then "done"
    year,                        \* the loop counter
    results,                     \* const results: YearlyData[]
    cumulativeAnnualInvestment,
    cumulativeLumpSumInvestment,
    output                       \* the returned ProjectionOutput, NoOutput before

vars == <<params, pc, year, results, cumulativeAnnualInvestment,
          cumulativeLumpSumInvestment, output,
          positions, settings, newPosition, projectionInput, history, other>>

\* what lies outside one invocation's frame
appVars == <<positions, settings, newPosition, projectionInput>>
engineVars == <<params, pc, year, results, cumulativeAnnualInvestment,
                cumulativeLumpSumInvestment, output>>

NoOutput == [returned |-> FALSE]

\* no second invocation
NoFrame == [pc |-> "none"]

\* the App as mounted, before any event
AppMounted ==
    /\ positions = initialPositions
    /\ settings = InitialSettings
    /\ newPosition = BlankPosition
    /\ projectionInput = ProjectionInputOf(initialPositions, InitialSettings)

Init ==
    /\ AppMounted
    /\ history = <<>>
    /\ other = NoFrame
    /\ params \in ProjectionInput
    /\ pc = "loop"
    /\ year = 1
    /\ results = <<>>
    /\ cumulativeAnnualInvestment = Zero
    /\ cumulativeLumpSumInvestment = Zero
    /\ output = NoOutput

\* ------------------------------------------------------- one loop iteration
\* (C1 mutant) the loop stops one year early
LoopCondExclusive(y, projectionYears) == y < projectionYears

\* the loop condition  year <= projectionYears
LoopCond(y, projectionYears) == y <= projectionYears

\* (C9 mutant) the lump sum is applied in every year
LumpSumEveryYear(y, lumpSumInvestment) == lumpSumInvestment

\* const lumpSumThisYear = year === 1 ? lumpSumInvestment : 0
LumpSumThisYear(y, lumpSumInvestment) == IF y = 1 THEN lumpSumInvestment ELSE Zero

\* (C10 mutant) later years add the contribution without applying the return
ProjectionValueNoReturn(y, res, investment, lumpSumThisYear, expectedReturn) ==
    IF y = 1 THEN Add(lumpSumThisYear, investment)
    ELSE Add(res[y - 1].projection, investment)

\* the if/else that sets projectionValue; res is the results array so far
ProjectionValue(y, res, investment, lumpSumThisYear, expectedReturn) ==
    IF y = 1 THEN Add(lumpSumThisYear, investment)
    ELSE LET prevYearProjection == res[y - 1].projection   \* results[year - 2], 0-based
         IN  Add(Mul(prevYearProjection, Add(One, expectedReturn)), investment)

\* (C8 mutant) the total leaves the lump sum out
TotalContributedAnnualOnly(cumAnnual, cumLump) == cumAnnual

\* const totalContributed = cumulativeAnnualInvestment + cumulativeLumpSumInvestment
TotalContributed(cumAnnual, cumLump) == Add(cumAnnual, cumLump)

\* (C11 mutant) the return is taken over the annual contributions only
TotalReturnAnnualOnly(projectionValue, totalContributed, cumAnnual) ==
    Sub(projectionValue, cumAnnual)

\* totalReturn = projectionValue - totalContributed
TotalReturn(projectionValue, totalContributed, cumAnnual) ==
    Sub(projectionValue, totalContributed)

\* pLo, pHi and bandsP
PLo(percentile) == MathMax(Rat(1, 10000), Div(percentile, Rat(100, 1)))
PHi(pLo) == MathMin(Rat(9999, 10000), Sub(One, pLo))
BandsP(percentile) == <<PLo(percentile), Rat(1, 4), Half, Rat(3, 4), PHi(PLo(percentile))>>

RECURSIVE MinOf(_)
MinOf(s) == IF Len(s) = 1 THEN s[1] ELSE MathMin(s[1], MinOf(Tail(s)))
RECURSIVE MaxOf(_)
MaxOf(s) == IF Len(s) = 1 THEN s[1] ELSE MathMax(s[1], MaxOf(Tail(s)))

\* (C22 mutant) worst is read at pLo wherever pLo lies in the set
WorstPAtPLo(bandsP) == bandsP[1]

\* the probabilities read back for worst and best
WorstP(bandsP) == MinOf(bandsP)
BestP(bandsP) == MaxOf(bandsP)

\* worstCase: worstValue < 0 ? 0 : worstValue
ClampWorst(worstValue) == IF LtZero(worstValue) THEN Zero ELSE worstValue

\* median = q[0.5], worst = q[Math.min(...bandsP)], best = q[Math.max(...bandsP)]
ReadBands(q, bandsP) ==
    [median |-> q[Half], worst |-> q[WorstP(bandsP)], best |-> q[BestP(bandsP)]]

\* q = totalQuantilesForYear(annLogMu, annLogSigma, lumpLogMu, lumpLogSigma, bandsP),
\* read back at the three probabilities
BandsFrom(ann, lump, bandsP) ==
    ReadBands(totalQuantilesForYear(ann.logMu, ann.logSigma, lump.logMu, lump.logSigma,
                                    {bandsP[i] : i \in 1..Len(bandsP)}),
              bandsP)

\* (C24 mutant) the lump sum is aged as many years as the annuity has payments
LumpYearsAsAnnuity(y) == IF y > 0 THEN y ELSE 0

\* const lumpYears = Math.max(0, year - 1)
LumpYears(y) == IF y - 1 > 0 THEN y - 1 ELSE 0

\* the bands of year y: both parameter pairs, then the shared-Z quantiles
BandsOfYear(p, y) ==
    BandsFrom(getLognormalDistributionParams(p.investment, y, p.expectedReturn, p.volatility),
              getLumpSumDistributionParams(p.lumpSumInvestment, LumpYears(y),
                                           p.expectedReturn, p.volatility),
              BandsP(p.percentile))

\* results.push({...}) from the values of the iteration
PushedRecord(p, y, lumpSumThisYear, projectionValue, newCumAnnual, newCumLump, totalContributed, bands) ==
    [year |-> y,
     age |-> p.age + y - 1,
     investment |-> p.investment,
     lumpSum |-> lumpSumThisYear,
     totalAnnualInvestment |-> newCumAnnual,
     totalLumpSumInvestment |-> newCumLump,
     totalInvestment |-> totalContributed,
     projection |-> projectionValue,
     worstCase |-> ClampWorst(bands.worst),
     bestCase |-> bands.best,
     investmentReturn |-> TotalReturn(projectionValue, totalContributed, newCumAnnual),
     medianCase |-> bands.median]

\* the values of the iteration once the two counters are advanced
RecordAfterCounters(p, y, res, lumpSumThisYear, newCumAnnual, newCumLump) ==
    PushedRecord(p, y, lumpSumThisYear,
                 ProjectionValue(y, res, p.investment, lumpSumThisYear, p.expectedReturn),
                 newCumAnnual, newCumLump,
                 TotalContributed(newCumAnnual, newCumLump),
                 BandsOfYear(p, y))

\* the record pushed by iteration y, given the state before it
YearRecord(p, y, res, cumAnnual, cumLump) ==
    RecordAfterCounters(p, y, res, LumpSumThisYear(y, p.lumpSumInvestment),
                        Add(cumAnnual, p.investment),
                        Add(cumLump, LumpSumThisYear(y, p.lumpSumInvestment)))

\* (C25 mutant) the record is put in front of the array (unshift)
PushRecordInFront(r) ==
    /\ results' = <<r>> \o results
    /\ cumulativeAnnualInvestment' = r.totalAnnualInvestment
    /\ cumulativeLumpSumInvestment' = r.totalLumpSumInvestment

\* results.push(r), with the counters as r carries them
PushRecord(r) ==
    /\ results' = Append(results, r)
    /\ cumulativeAnnualInvestment' = r.totalAnnualInvestment
    /\ cumulativeLumpSumInvestment' = r.totalLumpSumInvestment

LoopIteration ==
    /\ pc = "loop"
    /\ LoopCond(year, params.projectionYears)
    /\ PushRecord(YearRecord(params, year, results, cumulativeAnnualInvestment,
                             cumulativeLumpSumInvestment))
    /\ year' = year + 1
    /\ UNCHANGED <<params, pc, output>>
    /\ UNCHANGED <<appVars, history, other>>

\* ------------------------------------------------------------------ summary
\* (C14 mutant) the empty summary reports the nominal return like the other one
EmptySummaryNominal(p) ==
    [committedAnnualInvestment |-> p.investment,
     baseCAGR |-> p.expectedReturn,
     lastYearInvestmentValue |-> Zero]

\* emptySummary
EmptySummary(p) ==
    [committedAnnualInvestment |-> p.investment,
     baseCAGR |-> Zero,
     lastYearInvestmentValue |-> Zero]

\* (C15 mutant) the summary reads the first record instead of the last
SummaryOfFirstYear(p, res) ==
    [committedAnnualInvestment |-> p.investment,
     baseCAGR |-> p.expectedReturn,
     lastYearInvestmentValue |-> res[1].projection]

\* summary, with lastYear = results[results.length - 1]
SummaryOf(p, res) ==
    LET lastYear == res[Len(res)]
    IN  [committedAnnualInvestment |-> p.investment,
         baseCAGR |-> p.expectedReturn,
         lastYearInvestmentValue |-> lastYear.projection]

\* if (results.length === 0) return { yearlyData: [], summary: emptySummary }
ReturnEmpty ==
    /\ pc = "loop"
    /\ ~LoopCond(year, params.projectionYears)
    /\ Len(results) = 0
    /\ output' = [returned |-> TRUE,
                  yearlyData |-> <<>>,
                  summary |-> EmptySummary(params)]
    /\ pc' = "done"
    /\ UNCHANGED <<params, year, results, cumulativeAnnualInvestment,
                   cumulativeLumpSumInvestment>>
    /\ UNCHANGED <<appVars, history, other>>

\* return { yearlyData: results, summary }
ReturnSummary ==
    /\ pc = "loop"
    /\ ~LoopCond(year, params.projectionYears)
    /\ Len(results) # 0
    /\ output' = [returned |-> TRUE,
                  yearlyData |-> results,
                  summary |-> SummaryOf(params, results)]
    /\ pc' = "done"
    /\ UNCHANGED <<params, year, results, cumulativeAnnualInvestment,
                   cumulativeLumpSumInvestment>>
    /\ UNCHANGED <<appVars, history, other>>

Next == LoopIteration \/ ReturnEmpty \/ ReturnSummary

Spec == Init /\ [][Next]_vars

\* ------------------------------------------------------------- the App's UI
\* e.target.value of an <input type="number">: the empty string, or the text
\* of a finite number (held here as that number)
EmptyText == [k |-> "empty"]

\* Number(e.target.value): Number("") is 0
Number(value) == IF value.k = "empty" THEN Zero ELSE value

\* what a user types into the fields of ParametersPanel and of the Portfolio
\* form; min, max and step of an input do not stop the typing
ParameterValues == {Rat(-1, 1)}
FormValues == {EmptyText, Rat(2, 1)}
Symbols == {"", "VOO"}

\* the four Parameter fields of ParametersPanel
ParameterFields == {"lumpSumInvestment", "age", "projectionYears", "percentile"}

\* (C27 mutant) lumpSumInvestment is missing from the dependency list
ProjectionDepsWithoutLumpSum(input) ==
    <<input.investment, input.age, input.projectionYears, input.expectedReturn,
      input.volatility, input.percentile>>

\* the dependency list of the projection's useMemo
ProjectionDeps(input) ==
    <<input.investment, input.age, input.projectionYears, input.expectedReturn,
      input.volatility, input.percentile, input.lumpSumInvestment>>

\* useMemo: the factory runs again, with the current argument, only when a
\* dependency differs from the one of the run whose result is kept
UseMemo(memoInput, current) ==
    IF ProjectionDeps(current) = ProjectionDeps(memoInput) THEN memoInput ELSE current

\* the render that follows a state update: App recomputes the metrics and
\* the memoized projection; projectionInput is the argument of the run whose
\* yearlyData and summary are on screen
Render == projectionInput' = UseMemo(projectionInput, ProjectionInputOf(positions', settings'))

\* Parameter: onChange={(e) => setValue(Number(e.target.value))}
ParameterChange ==
    /\ \E field \in ParameterFields, value \in ParameterValues :
           settings' = [settings EXCEPT ![field] = Number(value)]
    /\ UNCHANGED <<positions, newPosition>>
    /\ Render
    /\ UNCHANGED <<engineVars, history, other>>

\* Portfolio.handleInputChange; only Portfolio renders again
handleInputChange ==
    /\ \/ \E value \in Symbols :
             newPosition' = [newPosition EXCEPT !.symbol = value]
       \/ \E name \in {"investmentAmount", "expectedReturn"}, value \in FormValues :
             newPosition' = [newPosition EXCEPT ![name] = Number(value)]
    /\ UNCHANGED <<positions, settings>>
    /\ UNCHANGED projectionInput        \* the form is Portfolio's own state
    /\ UNCHANGED <<engineVars, history, other>>

\* (C28 mutant) the amount is not looked at
CanAddPositionBySymbol(form) == form.symbol # ""

\* if (newPosition.symbol && newPosition.investmentAmount > 0)
CanAddPosition(form) == form.symbol # "" /\ Lt(Zero, form.investmentAmount)

\* (C29 mutant) the form is not reset after an add
handleAddPositionNoReset ==
    /\ Len(positions) < MaxPositions
    /\ IF CanAddPosition(newPosition)
       THEN positions' = Append(positions, newPosition)
       ELSE UNCHANGED positions
    /\ UNCHANGED <<settings, newPosition>>
    /\ Render
    /\ UNCHANGED <<engineVars, history, other>>

\* Portfolio.handleAddPosition
handleAddPosition ==
    /\ Len(positions) < MaxPositions
    /\ IF CanAddPosition(newPosition)
       THEN /\ positions' = Append(positions, newPosition)
            /\ newPosition' = BlankPosition
       ELSE UNCHANGED <<positions, newPosition>>
    /\ UNCHANGED settings
    /\ Render
    /\ UNCHANGED <<engineVars, history, other>>

\* (C30 mutant) everything from index on is dropped
RemoveFrom(ps, index) ==
    LET RECURSIVE filter(_)
        filter(i) == IF i >= Len(ps) THEN <<>>
                     ELSE (IF i < index THEN <<ps[i + 1]>> ELSE <<>>) \o filter(i + 1)
    IN  filter(0)

\* positions.filter((_, i) => i !== index), index counted from 0
RemoveAt(ps, index) ==
    LET RECURSIVE filter(_)
        filter(i) == IF i >= Len(ps) THEN <<>>
                     ELSE (IF i # index THEN <<ps[i + 1]>> ELSE <<>>) \o filter(i + 1)
    IN  filter(0)

\* Portfolio.handleRemovePosition, from the button of an existing row
handleRemovePosition ==
    /\ \E index \in 0..(Len(positions) - 1) :
           positions' = RemoveAt(positions, index)
    /\ UNCHANGED <<settings, newPosition>>
    /\ Render
    /\ UNCHANGED <<engineVars, history, other>>

\* no invocation is stepped while the UI is explored
EngineIdle ==
    /\ params = ProjectionInputOf(initialPositions, InitialSettings)
    /\ pc = "idle"
    /\ year = 1
    /\ results = <<>>
    /\ cumulativeAnnualInvestment = Zero
    /\ cumulativeLumpSumInvestment = Zero
    /\ output = NoOutput

InitApp ==
    /\ AppMounted
    /\ EngineIdle
    /\ history = <<>>
    /\ other = NoFrame

NextApp == ParameterChange \/ handleInputChange \/ handleAddPosition \/ handleRemovePosition

SpecApp == InitApp /\ [][NextApp]_vars

\* ------------------------------------------------------ calls one after another
\* the arguments of the calls that are compared with each other
CallInputs ==
    [investment : {One}, age : Ages, projectionYears : 0..MaxYears,
     expectedReturn : {Half}, volatility : {Half},
     percentile : {Rat(10, 1)}, lumpSumInvestment : {Zero, One}]

\* (C16 mutant) the counter is a module-level variable that outlives the call
StaleCumulativeAnnualInvestment == cumulativeAnnualInvestment

\* let cumulativeAnnualInvestment = 0, a local of each call
FreshCumulativeAnnualInvestment == Zero

\* the entry of calculateInvestmentProjection: params destructured, locals declared
Enter(p) ==
    /\ params' = p
    /\ pc' = "loop"
    /\ year' = 1
    /\ results' = <<>>
    /\ cumulativeAnnualInvestment' = FreshCumulativeAnnualInvestment
    /\ cumulativeLumpSumInvestment' = Zero
    /\ output' = NoOutput

\* a caller takes the returned value and calls again
Invoke ==
    /\ pc = "done"
    /\ Len(history) + 1 < MaxCalls
    /\ history' = Append(history, [input |-> params, output |-> output])
    /\ \E p \in CallInputs : Enter(p)
    /\ UNCHANGED <<appVars, other>>

InitCalls ==
    /\ AppMounted
    /\ history = <<>>
    /\ other = NoFrame
    /\ params \in CallInputs
    /\ pc = "loop"
    /\ year = 1
    /\ results = <<>>
    /\ cumulativeAnnualInvestment = Zero
    /\ cumulativeLumpSumInvestment = Zero
    /\ output = NoOutput

NextCalls == Invoke \/ LoopIteration \/ ReturnEmpty \/ ReturnSummary

SpecCalls == InitCalls /\ [][NextCalls]_vars

\* ------------------------------------------------- two invocations alongside
\* the frame of an invocation at its entry
FrameAtEntry(p) ==
    [params |-> p, pc |-> "loop", year |-> 1, results |-> <<>>,
     cumulativeAnnualInvestment |-> Zero, cumulativeLumpSumInvestment |-> Zero,
     output |-> NoOutput]

\* (C17 mutant) the second invocation reads the first one's counter
SharedCumulativeAnnualInvestment == cumulativeAnnualInvestment

\* the second invocation's own cumulativeAnnualInvestment
OwnCumulativeAnnualInvestment == other.cumulativeAnnualInvestment

\* results.push(r) and year++ in the frame f
FramePush(f, r) ==
    [f EXCEPT !.results = Append(@, r),
              !.cumulativeAnnualInvestment = r.totalAnnualInvestment,
              !.cumulativeLumpSumInvestment = r.totalLumpSumInvestment,
              !.year = @ + 1]

\* one loop iteration of the second invocation
OtherLoopIteration ==
    /\ other.pc = "loop"
    /\ LoopCond(other.year, other.params.projectionYears)
    /\ other' = FramePush(other, YearRecord(other.params, other.year, other.results,
                                            OwnCumulativeAnnualInvestment,
                                            other.cumulativeLumpSumInvestment))
    /\ UNCHANGED <<engineVars, appVars, history>>

OtherReturnEmpty ==
    /\ other.pc = "loop"
    /\ ~LoopCond(other.year, other.params.projectionYears)
    /\ Len(other.results) = 0
    /\ other' = [other EXCEPT !.pc = "done",
                              !.output = [returned |-> TRUE,
                                          yearlyData |-> <<>>,
                                          summary |-> EmptySummary(other.params)]]
    /\ UNCHANGED <<engineVars, appVars, history>>

OtherReturnSummary ==
    /\ other.pc = "loop"
    /\ ~LoopCond(other.year, other.params.projectionYears)
    /\ Len(other.results) # 0
    /\ other' = [other EXCEPT !.pc = "done",
                              !.output = [returned |-> TRUE,
                                          yearlyData |-> other.results,
                                          summary |-> SummaryOf(other.params, other.results)]]
    /\ UNCHANGED <<engineVars, appVars, history>>

InitInterleaved ==
    /\ AppMounted
    /\ history = <<>>
    /\ other \in {FrameAtEntry(p) : p \in CallInputs}
    /\ params \in CallInputs
    /\ pc = "loop"
    /\ year = 1
    /\ results = <<>>
    /\ cumulativeAnnualInvestment = Zero
    /\ cumulativeLumpSumInvestment = Zero
    /\ output = NoOutput

NextInterleaved ==
    \/ LoopIteration \/ ReturnEmpty \/ ReturnSummary
    \/ OtherLoopIteration \/ OtherReturnEmpty \/ OtherReturnSummary

SpecInterleaved == InitInterleaved /\ [][NextInterleaved]_vars

\* what one invocation returns when nothing else runs: the loop and the
\* summary, start to end
RECURSIVE RunYears(_, _)
RunYears(p, f) ==
    IF ~LoopCond(f.year, p.projectionYears) THEN f.results
    ELSE RunYears(p, FramePush(f, YearRecord(p, f.year, f.results,
                                             f.cumulativeAnnualInvestment,
                                             f.cumulativeLumpSumInvestment)))

\* the return statement taken for the final results array
Returned(p, res) ==
    IF Len(res) = 0
    THEN [returned |-> TRUE, yearlyData |-> <<>>, summary |-> EmptySummary(p)]
    ELSE [returned |-> TRUE, yearlyData |-> res, summary |-> SummaryOf(p, res)]

RunAlone(p) == Returned(p, RunYears(p, FrameAtEntry(p)))

\* ------------------------------------------------ ordering of band values
\* A band value is a rational, NaN, or a term a + b whose parts are rationals
\* or exp(logMu + z(p) * logSigma) with logSigma > 0.  Such a part is strictly
\* increasing in p; with E the matched mean and y = 1 + V / E^2 > 1 it is
\* below E for p <= 1/2 and above E / y for p >= 1/2.  Cmp decides the order
\* of two band values where these facts decide it: "lt", "eq", "gt", "nan"
\* (a NaN operand: every comparison is false) or "unknown".
IsNum(x) == IsRat(x) \/ IsInf(x)

CmpNum(x, y) == IF Lt(x, y) THEN "lt" ELSE IF Lt(y, x) THEN "gt" ELSE "eq"

PartP(x) == x.of.zs.z.p
PartMean(x) == IF x.of.mu.e = Zero THEN One ELSE x.of.mu.e.of
PartY(x) == x.of.mu.s2.of

CmpPart(a, b) ==
    IF IsNum(a) /\ IsNum(b) THEN CmpNum(a, b)
    ELSE IF ~IsNum(a) /\ ~IsNum(b) /\ a.of.mu = b.of.mu /\ a.of.zs.sigma = b.of.zs.sigma
         THEN CmpNum(PartP(a), PartP(b))
    ELSE "unknown"

UpperPart(x) ==
    IF IsNum(x) THEN x
    ELSE IF Leq(PartP(x), Half) THEN PartMean(x)
    ELSE PosInf

LowerPart(x) ==
    IF IsNum(x) THEN x
    ELSE IF Leq(Half, PartP(x)) THEN Div(PartMean(x), PartY(x))
    ELSE Zero

Upper(x) == IF IsNum(x) THEN x ELSE Add(UpperPart(x.a), UpperPart(x.b))
Lower(x) == IF IsNum(x) THEN x ELSE Add(LowerPart(x.a), LowerPart(x.b))

Cmp(a, b) ==
    IF IsNaN(a) \/ IsNaN(b) THEN "nan"
    ELSE IF a = b THEN "eq"
    ELSE IF IsNum(a) /\ IsNum(b) THEN CmpNum(a, b)
    ELSE IF ~IsNum(a) /\ ~IsNum(b) /\ CmpPart(a.a, b.a) # "unknown"
                                   /\ CmpPart(a.b, b.b) # "unknown"
         THEN LET c == {CmpPart(a.a, b.a), CmpPart(a.b, b.b)}
              IN  IF c = {"eq"} THEN "eq"
                  ELSE IF c \subseteq {"lt", "eq"} THEN "lt"
                  ELSE IF c \subseteq {"gt", "eq"} THEN "gt"
                  ELSE "unknown"
    ELSE IF Leq(Upper(a), Lower(b)) THEN "lt"
    ELSE IF Leq(Upper(b), Lower(a)) THEN "gt"
    ELSE "unknown"

\* a <= b and a === b as the program would evaluate them
ValLeq(a, b) == Cmp(a, b) \in {"lt", "eq"}
ValEq(a, b) == Cmp(a, b) = "eq"

\* a <= b is not refuted: it holds, or the model cannot decide it
NotAbove(a, b) == Cmp(a, b) \in {"lt", "eq", "unknown"}

Records == {results[i] : i \in 1..Len(results)}

\* ================================================================== claims

\* C1: when the call returns, yearlyData holds exactly projectionYears
\* records, in ascending year order, and the record at 0-based index i
\* (Sequences index i + 1) has year = i + 1.
C1_LengthAndYears ==
    output.returned =>
        /\ Len(output.yearlyData) = params.projectionYears
        /\ \A i \in 1..Len(output.yearlyData) : output.yearlyData[i].year = i
        /\ \A i \in 1..Len(output.yearlyData) - 1 :
              output.yearlyData[i].year < output.yearlyData[i + 1].year

C1_Witness ==
    /\ output.returned
    /\ params.projectionYears = MaxYears
    /\ Len(output.yearlyData) = MaxYears

\* C2 (as claimed): in every year record worstCase <= bestCase and
\* worstCase >= 0.
C2_WorstLeqBestNonNegative ==
    \A r \in Records : ValLeq(r.worstCase, r.bestCase) /\ ValLeq(Zero, r.worstCase)

\* C3 (as claimed): for tailPercentile in (0,50), in every year record
\* worstCase <= projection <= bestCase; an order the model cannot decide is
\* not counted against the claim.
C3_ProjectionWithinBand ==
    (Lt(Zero, params.percentile) /\ Lt(params.percentile, Rat(50, 1))) =>
        \A r \in Records :
            NotAbove(r.worstCase, r.projection) /\ NotAbove(r.projection, r.bestCase)

\* C4 (as claimed): the year-1 record has projection = lumpSumInvestment +
\* annualInvestment, worstCase = bestCase = that value, investmentReturn = 0.
C4_YearOneRecord ==
    Len(results) >= 1 =>
        LET r == results[1]
            v == Add(params.lumpSumInvestment, params.investment)
        IN  /\ ValEq(r.projection, v)
            /\ ValEq(r.worstCase, v)
            /\ ValEq(r.bestCase, v)
            /\ ValEq(r.investmentReturn, Zero)

\* C5 (as claimed): with annualInvestment = 0 and lumpSumInvestment = 0 every
\* year record has projection, worstCase, bestCase, medianCase and
\* investmentReturn all equal to 0.
C5_ZeroContribution ==
    (params.investment = Zero /\ params.lumpSumInvestment = Zero) =>
        \A r \in Records :
            /\ ValEq(r.projection, Zero)
            /\ ValEq(r.worstCase, Zero)
            /\ ValEq(r.bestCase, Zero)
            /\ ValEq(r.medianCase, Zero)
            /\ ValEq(r.investmentReturn, Zero)

\* C6 (as claimed): with volatility = 0, worstCase = bestCase = medianCase in
\* every year record, for every expectedReturn >= 0.
C6_ZeroVolatility ==
    params.volatility = Zero =>
        \A r \in Records : ValEq(r.worstCase, r.bestCase) /\ ValEq(r.bestCase, r.medianCase)

\* C7 (as claimed): every numeric field of every year record is a defined
\* number, never NaN (a NaN field is what a 0/0 step leaves behind).
NumericFields ==
    {"investment", "lumpSum", "totalAnnualInvestment", "totalLumpSumInvestment",
     "totalInvestment", "projection", "worstCase", "bestCase", "investmentReturn",
     "medianCase"}

C7_NoNaN == \A r \in Records : \A f \in NumericFields : ~IsNaN(r[f])

\* C8: totalInvestment(year) = totalInvestment(year - 1) + investment +
\* lumpSum(year) with totalInvestment(0) = 0, and in every record
\* totalInvestment = totalAnnualInvestment + totalLumpSumInvestment.
C8_TotalInvestmentRecurrence ==
    \A i \in 1..Len(results) :
        LET r == results[i]
            prev == IF i = 1 THEN Zero ELSE results[i - 1].totalInvestment
        IN  /\ StrictEq(r.totalInvestment, Add(Add(prev, r.investment), r.lumpSum))
            /\ StrictEq(r.totalInvestment,
                        Add(r.totalAnnualInvestment, r.totalLumpSumInvestment))

C8_Witness ==
    /\ Len(results) >= 2
    /\ params.investment # Zero
    /\ params.lumpSumInvestment # Zero
    /\ results[2].totalInvestment = Add(Add(params.investment, params.investment),
                                        params.lumpSumInvestment)

\* C9: across consecutive year records totalAnnualInvestment and
\* totalLumpSumInvestment never decrease; lumpSum is non-zero only in the
\* year-1 record; totalLumpSumInvestment equals lumpSumInvestment in every
\* record.
C9_MonotoneContributions ==
    \A i \in 1..Len(results) :
        LET r == results[i]
        IN  /\ i > 1 => /\ Leq(results[i - 1].totalAnnualInvestment, r.totalAnnualInvestment)
                        /\ Leq(results[i - 1].totalLumpSumInvestment,
                               r.totalLumpSumInvestment)
            /\ r.lumpSum # Zero => r.year = 1
            /\ StrictEq(r.totalLumpSumInvestment, params.lumpSumInvestment)

C9_Witness ==
    /\ Len(results) >= 2
    /\ params.lumpSumInvestment # Zero
    /\ results[1].lumpSum = params.lumpSumInvestment
    /\ results[2].lumpSum = Zero

\* C10: for every year k > 1, projection(k) = projection(k - 1) *
\* (1 + expectedReturn) + annualInvestment; the lump sum is in the path only
\* through year 1.
C10_DeterministicPath ==
    \A i \in 2..Len(results) :
        StrictEq(results[i].projection,
                 Add(Mul(results[i - 1].projection, Add(One, params.expectedReturn)),
                     params.investment))

C10_Witness ==
    /\ Len(results) >= 3
    /\ params.lumpSumInvestment # Zero
    /\ params.investment # Zero
    /\ params.expectedReturn # Zero
    /\ Lt(results[2].projection, results[3].projection)

\* C11: in every year record investmentReturn = projection - totalInvestment
\* of that same record.
C11_InvestmentReturn ==
    \A r \in Records : StrictEq(r.investmentReturn, Sub(r.projection, r.totalInvestment))

C11_Witness ==
    /\ Len(results) >= 2
    /\ params.lumpSumInvestment # Zero
    /\ params.expectedReturn # Zero
    /\ Lt(Zero, results[2].investmentReturn)

\* C14: with projectionYears = 0 the call returns an empty yearlyData and the
\* summary lastYearInvestmentValue = 0, baseCAGR = 0, committedAnnualInvestment
\* = the annual investment.
C14_ZeroHorizon ==
    (output.returned /\ params.projectionYears = 0) =>
        /\ output.yearlyData = <<>>
        /\ output.summary.lastYearInvestmentValue = Zero
        /\ output.summary.baseCAGR = Zero
        /\ output.summary.committedAnnualInvestment = params.investment

C14_Witness ==
    /\ output.returned
    /\ params.projectionYears = 0
    /\ params.expectedReturn # Zero
    /\ params.investment # Zero

\* C15: with projectionYears >= 1 the summary has lastYearInvestmentValue =
\* the projection of the record whose year is projectionYears, baseCAGR =
\* expectedReturn and committedAnnualInvestment = annualInvestment.
C15_SummaryIsLastYear ==
    (output.returned /\ params.projectionYears >= 1) =>
        /\ \E i \in 1..Len(output.yearlyData) :
              /\ output.yearlyData[i].year = params.projectionYears
              /\ output.summary.lastYearInvestmentValue = output.yearlyData[i].projection
        /\ output.summary.baseCAGR = params.expectedReturn
        /\ output.summary.committedAnnualInvestment = params.investment

C15_Witness ==
    /\ output.returned
    /\ params.projectionYears >= 2
    /\ output.summary.lastYearInvestmentValue # output.yearlyData[1].projection
    /\ output.summary.baseCAGR # Zero

\* C20 (as claimed): the closed forms are the first two moments of the
\* compounded sums.  M1, M2 are the annuity recursion, LumpM1, LumpM2 the
\* lump-sum one, with m = 1 + mu and A = m^2 + sigma^2.
RECURSIVE M1(_, _, _)
M1(C, n, mu) == IF n = 0 THEN Zero ELSE Add(Mul(Add(One, mu), M1(C, n - 1, mu)), C)

RECURSIVE M2(_, _, _, _)
M2(C, n, mu, sigma) ==
    IF n = 0 THEN Zero
    ELSE LET m == Add(One, mu)
             A == Add(Pow(m, 2), Pow(sigma, 2))
         IN  Add(Add(Mul(A, M2(C, n - 1, mu, sigma)),
                     Mul(Mul(Two, C), Mul(m, M1(C, n - 1, mu)))),
                 Pow(C, 2))

RECURSIVE LumpM1(_, _, _)
LumpM1(L, n, mu) == IF n = 0 THEN L ELSE Mul(Add(One, mu), LumpM1(L, n - 1, mu))

RECURSIVE LumpM2(_, _, _, _)
LumpM2(L, n, mu, sigma) ==
    IF n = 0 THEN Pow(L, 2)
    ELSE Mul(Add(Pow(Add(One, mu), 2), Pow(sigma, 2)), LumpM2(L, n - 1, mu, sigma))

C20_ExactMoments ==
    \A N \in 1..Len(results) :
        LET C == params.investment
            L == params.lumpSumInvestment
            mu == params.expectedReturn
            sigma == params.volatility
            m == Add(One, mu)
            A == GrowthSecondMoment(mu, sigma)
        IN  /\ Lt(Zero, C) =>
                /\ StrictEq(AnnuityMean(C, N, mu), M1(C, N, mu))
                /\ StrictEq(AnnuitySecondMoment(C, N, m, A), M2(C, N, mu, sigma))
            /\ Lt(Zero, L) =>
                /\ StrictEq(LumpSumMean(L, N, m), LumpM1(L, N, mu))
                /\ StrictEq(LumpSumSecondMoment(L, N, A), LumpM2(L, N, mu, sigma))

\* ------------------------------------------- the annuity-only references
\* notebook portfolio_projection(C, N, mu, sigma, [p])[p], p in 0..100
portfolio_projection(C, N, mu, sigma, p) ==
    LET m == Add(One, mu)
        A == Add(Pow(m, 2), Pow(sigma, 2))
        E == Div(Mul(C, Sub(Pow(m, N), One)), Sub(m, One))
        S == Div(Sub(Pow(A, N), One), Sub(A, One))
        T == SumT(m, A, N, 1)
        second_moment == Mul(Pow(C, 2), Add(S, Mul(Two, T)))
        V == Sub(second_moment, Pow(E, 2))
        sigma_w2 == MathLog(Add(One, Div(V, Pow(E, 2))))
        sigma_w == MathSqrt(sigma_w2)
        mu_w == LogMuOf(MathLog(E), sigma_w2)
    IN  IF p = Rat(50, 1) THEN E
        ELSE MathExp(AddLog(mu_w, MulZ(zOf(Div(p, Rat(100, 1))), sigma_w)))

\* notebook portfolio_path[year] = portfolio_path[year - 1] * (1 + mu) + C
RECURSIVE portfolio_path(_, _, _)
portfolio_path(C, y, mu) ==
    IF y = 0 THEN Zero ELSE Add(Mul(portfolio_path(C, y - 1, mu), Add(One, mu)), C)

\* notebook base_case_projection(C, N, mu): the path without year 0
base_case_projection(C, N, mu) == [y \in 1..N |-> portfolio_path(C, y, mu)]

\* Chart.tsx: worstValue = Math.exp(logMu + worstZ * logSigma), clamped at 0
ChartWorstCase(C, y, mu, sigma, percentile) ==
    LET d == getLognormalDistributionParams(C, y, mu, sigma)
        worstZ == zOf(Div(percentile, Rat(100, 1)))
    IN  ClampWorst(MathExp(AddLog(d.logMu, MulZ(worstZ, d.logSigma))))

\* Chart.tsx: topValue = Math.exp(logMu + topZ * logSigma)
ChartBestCase(C, y, mu, sigma, percentile) ==
    LET d == getLognormalDistributionParams(C, y, mu, sigma)
        topZ == zOf(Div(Sub(Rat(100, 1), percentile), Rat(100, 1)))
    IN  MathExp(AddLog(d.logMu, MulZ(topZ, d.logSigma)))

\* the records of an annuity-only run with a tail percentile strictly
\* between 0 and 50
AnnuityOnlyRecords ==
    IF /\ params.lumpSumInvestment = Zero
       /\ Lt(Zero, params.investment)
       /\ Lt(Zero, params.percentile)
       /\ Lt(params.percentile, Rat(50, 1))
    THEN Records ELSE {}

\* C18 (as claimed): for lumpSumInvestment = 0 and investment > 0 every year
\* record has projection = base_case_projection(C, N, mu)[year] and worstCase,
\* bestCase equal to portfolio_projection at p and 100 - p, which are also
\* the bands of the annuity-only engine of Chart.tsx.
C18_AgreesWithReference ==
    \A r \in AnnuityOnlyRecords :
        LET C == params.investment
            mu == params.expectedReturn
            sigma == params.volatility
            p == params.percentile
        IN  /\ StrictEq(r.projection, base_case_projection(C, r.year, mu)[r.year])
            /\ r.worstCase = portfolio_projection(C, r.year, mu, sigma, p)
            /\ r.bestCase = portfolio_projection(C, r.year, mu, sigma, Sub(Rat(100, 1), p))
            /\ r.worstCase = ChartWorstCase(C, r.year, mu, sigma, p)
            /\ r.bestCase = ChartBestCase(C, r.year, mu, sigma, p)

\* C12: calculatePortfolioMetrics returns investment = the sum of the
\* investmentAmount, expectedReturn = (sum of investmentAmount_i *
\* expectedReturn_i / 100) / investment, or 0 when investment = 0, and
\* volatility = 0.15; {100000 @ 4%, 100000 @ 8%} gives 200000 and 0.06.  The
\* sums are taken here front to back over the position list.
RECURSIVE SumOfAmounts(_)
SumOfAmounts(ps) ==
    IF ps = <<>> THEN Zero ELSE Add(Head(ps).investmentAmount, SumOfAmounts(Tail(ps)))

RECURSIVE SumOfWeighted(_)
SumOfWeighted(ps) ==
    IF ps = <<>> THEN Zero
    ELSE Add(Div(Mul(Head(ps).investmentAmount, Head(ps).expectedReturn), Rat(100, 1)),
             SumOfWeighted(Tail(ps)))

C12_PortfolioMetrics ==
    LET metrics == calculatePortfolioMetrics(positions)
    IN  /\ StrictEq(metrics.investment, SumOfAmounts(positions))
        /\ StrictEq(metrics.expectedReturn,
                    IF SumOfAmounts(positions) = Zero THEN Zero
                    ELSE Div(SumOfWeighted(positions), SumOfAmounts(positions)))
        /\ metrics.volatility = Rat(15, 100)
        /\ positions = initialPositions =>
              /\ metrics.investment = Rat(200000, 1)
              /\ metrics.expectedReturn = Rat(6, 100)
        /\ projectionInput.investment = metrics.investment
        /\ projectionInput.expectedReturn = metrics.expectedReturn
        /\ projectionInput.volatility = metrics.volatility

C12_Witness ==
    /\ Len(positions) = 2
    /\ positions[1].investmentAmount # positions[2].investmentAmount
    /\ positions[1].expectedReturn # positions[2].expectedReturn
    /\ positions[1].expectedReturn # Zero
    /\ projectionInput.expectedReturn # Zero

\* C13 (as claimed): for an empty position list the metrics are all zero:
\* investment = 0, expectedReturn = 0 and volatility = 0.
C13_EmptyAllZero ==
    positions = <<>> =>
        LET metrics == calculatePortfolioMetrics(positions)
        IN  /\ StrictEq(metrics.investment, Zero)
            /\ StrictEq(metrics.expectedReturn, Zero)
            /\ StrictEq(metrics.volatility, Zero)

\* C13 (amended): for an empty position list the metrics are investment = 0,
\* expectedReturn = 0 and volatility = 0.15, the fixed constant.
C13_EmptyMetrics ==
    positions = <<>> =>
        LET metrics == calculatePortfolioMetrics(positions)
        IN  /\ StrictEq(metrics.investment, Zero)
            /\ StrictEq(metrics.expectedReturn, Zero)
            /\ StrictEq(metrics.volatility, Rat(15, 100))

C13_Witness ==
    /\ positions = <<>>
    /\ projectionInput.investment = Zero
    /\ projectionInput.expectedReturn = Zero

\* C19 (as claimed): after any sequence of UI events the argument handed to
\* calculateInvestmentProjection has an integer projectionYears >= 1,
\* investment >= 0 and lumpSumInvestment >= 0.
C19_InputsValidated ==
    /\ IsRat(projectionInput.projectionYears)
    /\ projectionInput.projectionYears.d = 1
    /\ Leq(One, projectionInput.projectionYears)
    /\ Leq(Zero, projectionInput.investment)
    /\ Leq(Zero, projectionInput.lumpSumInvestment)

\* C16: calculateInvestmentProjection is deterministic and pure: any two
\* calls with identical inputs, whatever calls lie between them, return
\* identical yearlyData and summary, and a call leaves its input unchanged.
Calls ==
    IF output.returned THEN Append(history, [input |-> params, output |-> output])
    ELSE history

SameInputSameOutput ==
    \A i, j \in 1..Len(Calls) :
        Calls[i].input = Calls[j].input => Calls[i].output = Calls[j].output

C16_Pure ==
    /\ []SameInputSameOutput
    /\ [][pc = "loop" => params' = params]_vars

C16_Witness ==
    /\ Len(history) = 2
    /\ output.returned
    /\ history[1].input = params
    /\ history[2].input # params
    /\ Len(output.yearlyData) >= 2
    /\ Len(history[2].output.yearlyData) >= 1

\* C17: two invocations with different inputs whose loop steps interleave in
\* any order each return exactly what they return when run alone, and no step
\* of one writes the results or counters of the other.
BothAsAlone ==
    /\ output.returned => output = RunAlone(params)
    /\ other.pc = "done" => other.output = RunAlone(other.params)

C17_Isolated ==
    /\ []BothAsAlone
    /\ [][other' # other => UNCHANGED engineVars]_vars
    /\ [][engineVars' # engineVars => other' = other]_vars

C17_Witness ==
    /\ output.returned
    /\ Len(output.yearlyData) >= 2
    /\ other.pc = "loop"
    /\ Len(other.results) >= 1
    /\ other.params # params
    /\ other.cumulativeAnnualInvestment # cumulativeAnnualInvestment

\* C21: degenerate moment inputs give a point distribution: the annuity
\* helper with N = 0 or C = 0 returns logSigma = 0 and every quantile equal to
\* C, or 1 when C = 0; the lump-sum helper with L = 0 or N <= 0 returns
\* logSigma = 0 and every quantile equal to L, or 1 when L = 0.
PointValue(d, p) == MathExp(AddLog(d.logMu, MulZ(zOf(p), d.logSigma)))

ProbabilitiesOf(percentile) ==
    {BandsP(percentile)[i] : i \in 1..Len(BandsP(percentile))}

DegenerateAnnuity(C, N, mu, sigma, p) ==
    (N = 0 \/ C = Zero) =>
        /\ getLognormalDistributionParams(C, N, mu, sigma).logSigma = Zero
        /\ StrictEq(PointValue(getLognormalDistributionParams(C, N, mu, sigma), p),
                    IF C = Zero THEN One ELSE C)

DegenerateLumpSum(L, N, mu, sigma, p) ==
    (L = Zero \/ N <= 0) =>
        /\ getLumpSumDistributionParams(L, N, mu, sigma).logSigma = Zero
        /\ StrictEq(PointValue(getLumpSumDistributionParams(L, N, mu, sigma), p),
                    IF L = Zero THEN One ELSE L)

C21_DegeneratePoint ==
    \A N \in -1..Len(results), p \in ProbabilitiesOf(params.percentile) :
        /\ N >= 0 => DegenerateAnnuity(params.investment, N, params.expectedReturn,
                                       params.volatility, p)
        /\ DegenerateLumpSum(params.lumpSumInvestment, N, params.expectedReturn,
                             params.volatility, p)

C21_Witness ==
    /\ Len(results) >= 2
    /\ params.investment = Zero
    /\ Lt(Zero, params.lumpSumInvestment)
    /\ params.volatility # Zero
    /\ results[1].medianCase = Add(params.lumpSumInvestment, One)

\* C22: each year the combined quantile is evaluated on exactly
\* {pLow, 0.25, 0.5, 0.75, pHigh}, pLow = max(0.0001, tailPercentile/100),
\* pHigh = min(0.9999, 1 - pLow); worstCase is the combined quantile at the
\* smallest probability of that set, bestCase at the largest, medianCase at 0.5.
PLow(percentile) ==
    IF Lt(Div(percentile, Rat(100, 1)), Rat(1, 10000)) THEN Rat(1, 10000)
    ELSE Div(percentile, Rat(100, 1))

PHigh(percentile) ==
    IF Lt(Rat(9999, 10000), Sub(One, PLow(percentile))) THEN Rat(9999, 10000)
    ELSE Sub(One, PLow(percentile))

ProbabilitySet(percentile) ==
    {PLow(percentile), Rat(1, 4), Rat(1, 2), Rat(3, 4), PHigh(percentile)}

Smallest(S) == CHOOSE x \in S : \A y \in S : Leq(x, y)
Largest(S) == CHOOSE x \in S : \A y \in S : Leq(y, x)

\* the combined quantile of year y at probability prob
CombinedQuantile(p, y, prob) ==
    QuantileAt(getLognormalDistributionParams(p.investment, y, p.expectedReturn,
                                              p.volatility).logMu,
               getLognormalDistributionParams(p.investment, y, p.expectedReturn,
                                              p.volatility).logSigma,
               getLumpSumDistributionParams(p.lumpSumInvestment, LumpYears(y),
                                            p.expectedReturn, p.volatility).logMu,
               getLumpSumDistributionParams(p.lumpSumInvestment, LumpYears(y),
                                            p.expectedReturn, p.volatility).logSigma,
               prob)

C22_ProbabilitySet ==
    /\ ProbabilitiesOf(params.percentile) = ProbabilitySet(params.percentile)
    /\ \A r \in Records :
          /\ r.worstCase = CombinedQuantile(params, r.year,
                                            Smallest(ProbabilitySet(params.percentile)))
          /\ r.bestCase = CombinedQuantile(params, r.year,
                                           Largest(ProbabilitySet(params.percentile)))
          /\ r.medianCase = CombinedQuantile(params, r.year, Half)

C22_Witness ==
    /\ Len(results) >= 2
    /\ params.percentile = Rat(75, 1)
    /\ ~IsNaN(results[2].worstCase)
    /\ results[2].worstCase # results[2].bestCase
    /\ results[2].worstCase # results[2].medianCase

\* C23 (as claimed): for every integer tailPercentile in (0,50) worstCase is
\* the combined quantile at tailPercentile/100 and bestCase the one at
\* 1 - tailPercentile/100, so two different tail percentiles of that range
\* give different bands whenever volatility > 0 (compared here in the years
\* whose annuity distribution is not a point: year >= 2, investment > 0).
TailRange(percentile) ==
    /\ IsRat(percentile)
    /\ percentile.d = 1
    /\ Lt(Zero, percentile)
    /\ Lt(percentile, Rat(50, 1))

BandsDifferFromOtherTails(p, y) ==
    \A other_percentile \in Percentiles :
        (TailRange(other_percentile) /\ other_percentile # p.percentile) =>
            BandsOfYear([p EXCEPT !.percentile = other_percentile], y) # BandsOfYear(p, y)

TailAt(r) ==
    /\ r.worstCase = CombinedQuantile(params, r.year,
                                      Div(params.percentile, Rat(100, 1)))
    /\ r.bestCase = CombinedQuantile(params, r.year,
                                     Sub(One, Div(params.percentile, Rat(100, 1))))

C23_TailHonoured ==
    TailRange(params.percentile) =>
        \A r \in Records :
            /\ TailAt(r)
            /\ (Lt(Zero, params.volatility) /\ Lt(Zero, params.investment) /\ r.year >= 2)
                  => BandsDifferFromOtherTails(params, r.year)

\* C24: the deterministic path and the moment engine use the same timing:
\* with annualInvestment > 0, lumpSumInvestment > 0 and expectedReturn # 0,
\* projection(k) = annuity mean for N = k + lump-sum mean for N = k - 1
\*               = C*((1+mu)^k - 1)/mu + L*(1+mu)^(k-1).
TimedInputs ==
    /\ Lt(Zero, params.investment)
    /\ Lt(Zero, params.lumpSumInvestment)
    /\ params.expectedReturn # Zero

C24_SameTiming ==
    TimedInputs =>
        \A r \in Records :
            /\ StrictEq(r.projection,
                        Add(AnnuityMean(params.investment, r.year, params.expectedReturn),
                            LumpSumMean(params.lumpSumInvestment, LumpYears(r.year),
                                        Add(One, params.expectedReturn))))
            /\ StrictEq(r.projection,
                        Add(Div(Mul(params.investment,
                                    Sub(Pow(Add(One, params.expectedReturn), r.year), One)),
                                params.expectedReturn),
                            Mul(params.lumpSumInvestment,
                                Pow(Add(One, params.expectedReturn), r.year - 1))))

C24_Witness ==
    /\ TimedInputs
    /\ Len(results) >= 3
    /\ Lt(results[2].projection, results[3].projection)

\* C25: the year loop is append-only: each iteration appends exactly one
\* record and leaves the earlier records unchanged; iteration k > 1 reads only
\* the projection of record k-1, which is present at index k-2 (0-based) when
\* it is read.
\* the results array with everything hidden but the projection of record k-1
OnlyPreviousProjection ==
    [i \in 1..Len(results) |->
        IF i = year - 1 THEN [projection |-> results[i].projection] ELSE [hidden |-> TRUE]]

AppendsOne ==
    /\ Len(results') = Len(results) + 1
    /\ SubSeq(results', 1, Len(results)) = results
    /\ results'[Len(results')] =
          YearRecord(params, year, OnlyPreviousProjection, cumulativeAnnualInvestment,
                     cumulativeLumpSumInvestment)

C25_AppendOnly ==
    /\ [](pc = "loop" => Len(results) = year - 1)
    /\ [][(results' # results \/ year' # year) => AppendsOne]_vars

C25_Witness ==
    /\ Len(results) >= 3
    /\ results[1] # results[2]
    /\ results[2] # results[3]

\* C26 (as claimed): the work done for one year, the inner summation loop
\* of the annuity helper included, is bounded by a constant independent of the
\* year index, so the loop iterations grow linearly with the horizon.  The
\* work of year y is the one outer iteration plus the inner iterations of the
\* helper call for N = y; independent of the year index means no year does
\* more than year 1.
WorkOfYear(p, y) == 1 + InnerLoopIterations(p.investment, y)

C26_ConstantWorkPerYear ==
    \A r \in Records : WorkOfYear(params, r.year) <= WorkOfYear(params, 1)

\* C27: after any sequence of state changes in the App the rendered
\* yearlyData and summary are those of calculateInvestmentProjection applied
\* to the inputs derived from the current state: the run whose result is on
\* screen had the current inputs as its argument.
C27_NeverStale ==
    projectionInput = ProjectionInputOf(positions, settings)

C27_Witness ==
    /\ positions # initialPositions
    /\ Len(positions) >= 1
    /\ settings.lumpSumInvestment # InitialSettings.lumpSumInvestment
    /\ settings.projectionYears # InitialSettings.projectionYears
    /\ projectionInput.lumpSumInvestment = settings.lumpSumInvestment
    /\ projectionInput.investment # Rat(200000, 1)

\* C28: after any sequence of adds and removes from the two initial
\* positions every position has a non-empty symbol and investmentAmount > 0,
\* so the aggregated investment is 0 exactly when the list is empty.
C28_PositionsValid ==
    /\ \A i \in 1..Len(positions) :
          /\ positions[i].symbol # ""
          /\ Lt(Zero, positions[i].investmentAmount)
    /\ (calculatePortfolioMetrics(positions).investment = Zero) <=> (positions = <<>>)

C28_Witness ==
    /\ Len(positions) = 2
    /\ positions[2].symbol = "VOO"
    /\ positions[2].investmentAmount = Rat(2, 1)
    /\ newPosition.symbol = "VOO"
    /\ newPosition.investmentAmount = Zero

\* C29: handleAddPosition appends the form's position at the end of the list
\* and resets the form to its defaults only when the form's symbol is
\* non-empty and its investmentAmount > 0, and otherwise changes neither; so
\* after an add the form cannot be added again until its symbol is edited.
DefaultForm ==
    [symbol |-> "", expectedReturn |-> Rat(8, 1), assetClass |-> "Global Equity",
     investmentAmount |-> Rat(100000, 1)]

AddedFromForm ==
    /\ newPosition.symbol # ""
    /\ Lt(Zero, newPosition.investmentAmount)
    /\ positions' = Append(positions, newPosition)
    /\ newPosition' = DefaultForm
    /\ ~(newPosition'.symbol # "" /\ Lt(Zero, newPosition'.investmentAmount))

\* an edit changes one field of the form; only the reset changes several
FormEditedAtMostOneField ==
    Cardinality({field \in DOMAIN newPosition :
                     newPosition'[field] # newPosition[field]}) <= 1

C29_AddPosition ==
    /\ [][Len(positions') > Len(positions) => AddedFromForm]_vars
    /\ [][Len(positions') <= Len(positions) => FormEditedAtMostOneField]_vars

C29_Witness ==
    /\ Len(positions) = 2
    /\ positions[1] = initialPositions[2]
    /\ positions[2].symbol = "VOO"
    /\ newPosition = DefaultForm

\* C30: handleRemovePosition(i) removes exactly the position at index i and
\* keeps the others in their order: one shorter for 0 <= i < length, unchanged
\* for an i out of range; a remove never modifies the add form.
RemovedExactly(ps, index, out) ==
    IF 0 <= index /\ index < Len(ps)
    THEN /\ Len(out) = Len(ps) - 1
         /\ \A j \in 1..Len(out) : out[j] = IF j <= index THEN ps[j] ELSE ps[j + 1]
    ELSE out = ps

RemoveAsSpecified ==
    \A index \in -1..(Len(positions) + 1) :
        RemovedExactly(positions, index, RemoveAt(positions, index))

====
